---- MODULE Spec2Model ----
(***************************************************************************)
(* A model of the gdk_electrum wallet core:                                *)
(*   headers/mod.rs   compute_merkle_root, spv_verify_tx                   *)
(*   interface.rs     WalletCtx::sync, utxos, create_tx, get_address       *)
(* The durable store (db.rs, Forest) and the header chain file             *)
(* (headers/bitcoin.rs, HeadersChain) are collaborators whose code is not  *)
(* part of the two files; they are modelled from the design document.      *)
(***************************************************************************)
EXTENDS Integers, Sequences, FiniteSets, TLC

VARIABLES
    chain,      \* HeadersChain: the locally kept headers, chain[i+1] is height i
    spv,        \* outcome of the last spv_verify_tx call
    input,      \* the SPVVerifyTx the last spv_verify_tx call was given
    idx,        \* db: the two derivation counters, idx[0] external, idx[1] internal
    paths,      \* db: the script entries (chain selector, index) created so far
    txstore,    \* db: transaction id -> transaction
    headers,    \* db: heights with a stored header
    heights,    \* db: transaction id -> confirmation height
    remote,     \* the indexer's current view: listed transaction id -> height
    handed,     \* the <<chain selector, index>> pairs handed out so far
    last        \* outcome of the last wallet operation

vars == <<chain, spv, input, idx, paths, txstore, headers, heights, remote, handed, last>>

spvVars == <<chain, spv, input>>

walletVars == <<idx, paths, txstore, headers, heights, remote, handed, last>>

(***************************************************************************)
(* Digests.  A digest is a sequence of integers.  The double hash of the   *)
(* concatenation a || b is written as a sequence from which a and b can be *)
(* read back (the length of a is part of it), so it is collision free.     *)
(* The byte reversal of a digest is the reversal of the sequence.          *)
(***************************************************************************)
Txid(n) == <<n, 0>>

sha256d(a, b) == <<-1, Len(a)>> \o a \o b

reverse(d) == [i \in 1..Len(d) |-> d[Len(d) + 1 - i]]

(***************************************************************************)
(* compute_merkle_root: fold the siblings of a proof over the transaction  *)
(* id.  Each sibling is byte-reversed first; pos decides the order of the  *)
(* concatenation and is halved after each sibling.                         *)
(***************************************************************************)
\* the loop without line 39: pos keeps its value from sibling to sibling
RECURSIVE fold_merkle_pos_kept(_, _, _)
fold_merkle_pos_kept(current, pos, hashes) ==
    IF hashes = <<>>
    THEN current
    ELSE LET hash == reverse(Head(hashes))
             next == IF pos % 2 = 0
                     THEN sha256d(current, hash)
                     ELSE sha256d(hash, current)
         IN  fold_merkle_pos_kept(next, pos, Tail(hashes))

RECURSIVE fold_merkle(_, _, _)
fold_merkle(current, pos, hashes) ==
    IF hashes = <<>>
    THEN current
    ELSE LET hash == reverse(Head(hashes))
             next == IF pos % 2 = 0
                     THEN sha256d(current, hash)
                     ELSE sha256d(hash, current)
         IN  fold_merkle(next, pos \div 2, Tail(hashes))

compute_merkle_root(txid, merkle) == fold_merkle(txid, merkle.pos, merkle.merkle)

(***************************************************************************)
(* The remote chain the indexer serves: block h holds (h % 4) + 1          *)
(* transactions, its merkle tree is built the usual way (an odd level      *)
(* pairs its last node with itself), and a proof lists the siblings from   *)
(* leaf to root in the reversed (display) byte order.                      *)
(***************************************************************************)
RemoteTip == 3

NumLeaves(h) == (h % 4) + 1

LeavesAt(h) == [i \in 1..NumLeaves(h) |-> Txid(4 * h + i)]

NextLevel(level) ==
    [i \in 1..((Len(level) + 1) \div 2) |->
        sha256d(level[2 * i - 1],
                IF 2 * i <= Len(level) THEN level[2 * i] ELSE level[2 * i - 1])]

RECURSIVE MerkleRootOf(_)
MerkleRootOf(level) ==
    IF Len(level) = 1 THEN level[1] ELSE MerkleRootOf(NextLevel(level))

RECURSIVE MerkleBranch(_, _)
MerkleBranch(level, pos) ==
    IF Len(level) = 1
    THEN <<>>
    ELSE LET sib == IF pos % 2 = 0
                    THEN (IF pos + 2 <= Len(level) THEN level[pos + 2] ELSE level[pos + 1])
                    ELSE level[pos]
         IN  <<reverse(sib)>> \o MerkleBranch(NextLevel(level), pos \div 2)

GenuineProof(h, pos) == [pos |-> pos, merkle |-> MerkleBranch(LeavesAt(h), pos)]

\* A header: its identity, the identity of its predecessor, its merkle root.
GenuineHeader(h) == [id |-> h, prev |-> h - 1, root |-> MerkleRootOf(LeavesAt(h))]

\* What a dishonest indexer can serve: a proof of a transaction that is in no
\* block, and a header that carries the root this proof folds to.
ForgedTx == Txid(99)

ForgedProof == [pos |-> 1, merkle |-> <<reverse(Txid(98))>>]

ForgedHeader(prev) ==
    [id |-> 100 + prev, prev |-> prev, root |-> compute_merkle_root(ForgedTx, ForgedProof)]

BrokenHeader == [id |-> 200, prev |-> 199, root |-> Txid(97)]

\* A genuine proof with its first sibling replaced by another digest.
Tamper(proof) ==
    IF proof.merkle = <<>>
    THEN [proof EXCEPT !.merkle = <<reverse(Txid(96))>>]
    ELSE [proof EXCEPT !.merkle[1] = reverse(Txid(96))]

\* The replies the indexer may give to transaction_get_merkle(txid, h).
ProofReplies(txid, h) ==
    LET here == IF h <= RemoteTip
                THEN {GenuineProof(h, i - 1) : i \in {j \in 1..NumLeaves(h) : LeavesAt(h)[j] = txid}}
                ELSE {}
    IN  here \cup {Tamper(p) : p \in here} \cup {ForgedProof}

\* The replies the indexer may give to block_headers(start, count).
HonestHeaders(start, count) ==
    LET n == IF start > RemoteTip THEN 0
             ELSE IF start + count - 1 > RemoteTip THEN RemoteTip - start + 1
             ELSE count
    IN  [i \in 1..n |-> GenuineHeader(start + i - 1)]

HeaderReplies(tip, start, count) ==
    {HonestHeaders(start, count)}
        \cup (IF count >= 1 /\ start <= RemoteTip
              THEN {<<ForgedHeader(tip.id)>>, <<BrokenHeader>>}
              ELSE {})

\* The replies the indexer may give to block_header_raw(h); the empty reply
\* stands for bytes that do not deserialize to a header.
RawHeaderReplies(h) ==
    (IF h <= RemoteTip THEN {<<GenuineHeader(h)>>} ELSE {})
        \cup {<<ForgedHeader(h - 1)>>, <<>>}

\* compute_merkle_root applied to the proof of one leaf of one tree, as the
\* indexer built it or with one sibling replaced by another digest.
MaxLeaves == 4

LeafIds == 1..3

Trees == UNION {[1..n -> {Txid(k) : k \in LeafIds}] : n \in 1..MaxLeaves}

Replacements == {reverse(Txid(k)) : k \in LeafIds} \cup {reverse(sha256d(Txid(1), Txid(1)))}

\* The inputs: a leaf of a tree with its proof, genuine (replaced = 0) or with
\* the sibling at index replaced exchanged for another digest.
MerkleInputs ==
    UNION {UNION {
        LET genuine == [pos |-> i - 1, merkle |-> MerkleBranch(leaves, i - 1)]
            Given(merkle, replaced) ==
                [op |-> "merkle_input", res |-> "None", txid |-> leaves[i],
                 merkle |-> merkle, root |-> MerkleRootOf(leaves), replaced |-> replaced]
        IN  {Given(genuine, 0)}
                \cup UNION {{Given([genuine EXCEPT !.merkle[k] = d], k) :
                                d \in Replacements \ {genuine.merkle[k]}} :
                            k \in DOMAIN genuine.merkle}
        : i \in DOMAIN leaves} : leaves \in Trees}

fold_proof ==
    /\ last.op = "merkle_input"
    /\ last' = [op |-> "compute_merkle_root", res |-> "Ok", txid |-> last.txid,
                merkle |-> last.merkle, root |-> last.root, replaced |-> last.replaced,
                current |-> compute_merkle_root(last.txid, last.merkle)]
    /\ UNCHANGED <<idx, paths, txstore, headers, heights, remote, handed, chain, spv, input>>

InitMerkleVars ==
    /\ idx = [c \in {0, 1} |-> 0]
    /\ paths = {}
    /\ txstore = {}
    /\ headers = {}
    /\ heights = <<>>
    /\ remote = <<>>
    /\ handed = {}
    /\ last \in MerkleInputs

(***************************************************************************)
(* HeadersChain (headers/bitcoin.rs): the persisted chain of one network.  *)
(***************************************************************************)
height(c) == Len(c) - 1

header_at(c, h) == c[h + 1]

\* push accepts a batch only if it chains from the tip, header by header.
chains_from(c, hs) ==
    \A i \in 1..Len(hs) :
        hs[i].prev = (IF i = 1 THEN c[Len(c)].id ELSE hs[i - 1].id)

push(c, hs) == c \o hs

\* ProofVerifier: the fold of the proof must equal the header's merkle root.
verify_tx_proof(txid, proof, header) == compute_merkle_root(txid, proof) = header.root

(***************************************************************************)
(* spv_verify_tx                                                           *)
(***************************************************************************)
MaxHeadersBatch == 2016

\* unwrap_or_default() for unwrap_or(2016): an absent value becomes 0
unwrap_or_default(opt, default) == IF opt = {} THEN 0 ELSE CHOOSE x \in opt : TRUE

unwrap_or(opt, default) == IF opt = {} THEN default ELSE CHOOSE x \in opt : TRUE

\* max for min: the larger of the two
min_taking_larger(a, b) == IF a <= b THEN b ELSE a

min(a, b) == IF a <= b THEN a ELSE b

NoProof == [pos |-> 0, merkle |-> <<>>]

NoHeader == [id |-> -1, prev |-> -1, root |-> <<>>]

SpvOutcome(net, txid, h, res, proof, header, src, before, reqs) ==
    [network |-> net, txid |-> txid, height |-> h, res |-> res, proof |-> proof,
     header |-> header, src |-> src, height_before |-> before, reqs |-> reqs]

\* line 57 with <= for <: the tip itself would count as covered
enough_headers_inclusive(h, c) == h <= height(c)

\* line 57: the proof is fetched only for a height below the chain's height
enough_headers(h, c) == h < height(c)

\* lines 59-63 with the two arms exchanged
VerifyResult_inverted(ok) == IF ok THEN "NotVerified" ELSE "Verified"

\* lines 59-63 and 76-80: Ok(Verified) if the verifier accepts, else Ok(NotVerified)
VerifyResult(ok) == IF ok THEN "Verified" ELSE "NotVerified"

\* HeadersChain::verify_tx_proof returns a Result: Ok(()) when the fold equals
\* the root of the header read at the height, an error when it differs, and
\* the error of the read when the header cannot be read from the chain file.
chain_verify_tx_proof(txid, proof, c, h, readable) ==
    IF ~readable THEN "PersistenceFailure"
    ELSE IF verify_tx_proof(txid, proof, header_at(c, h)) THEN "Ok"
    ELSE "ProofMismatch"

\* line 59: Result::is_ok
is_ok(result) == result = "Ok"

\* NetworkId::Bitcoin, input.height < chain.height(): fetch the proof, verify it
\* against the header the local chain holds at that height.
SpvProofBranch(txid, h) ==
    /\ enough_headers(h, chain)
    /\ \/ \E proof \in ProofReplies(txid, h), readable \in BOOLEAN :
            spv' = SpvOutcome("Bitcoin", txid, h,
                       VerifyResult(is_ok(chain_verify_tx_proof(txid, proof, chain, h, readable))),
                       proof, IF readable THEN header_at(chain, h) ELSE NoHeader,
                       IF readable THEN "local" ELSE "unreadable", height(chain),
                       <<[kind |-> "get_merkle", a |-> h, b |-> 0]>>)
       \/ spv' = SpvOutcome("Bitcoin", txid, h, "Err", NoProof, NoHeader, "client_failed",
                       height(chain), <<[kind |-> "get_merkle", a |-> h, b |-> 0]>>)
    /\ chain' = chain

\* NetworkId::Bitcoin, otherwise: download one bounded batch of headers, append
\* it and ask to be called again.
SpvHeadersBranch(txid, h, to_download) ==
    /\ ~enough_headers(h, chain)
    /\ LET headers_to_download == min(unwrap_or(to_download, MaxHeadersBatch), MaxHeadersBatch)
           req == <<[kind |-> "block_headers", a |-> height(chain) + 1, b |-> headers_to_download]>>
       IN  \/ \E hs \in HeaderReplies(chain[Len(chain)], height(chain) + 1, headers_to_download) :
                 IF chains_from(chain, hs)
                 THEN /\ chain' = push(chain, hs)
                      /\ spv' = SpvOutcome("Bitcoin", txid, h, "CallMeAgain", NoProof,
                                    NoHeader, "none", height(chain), req)
                 ELSE /\ chain' = chain
                      /\ spv' = SpvOutcome("Bitcoin", txid, h, "Err", NoProof,
                                    NoHeader, "none", height(chain), req)
           \/ /\ chain' = chain
              /\ spv' = SpvOutcome("Bitcoin", txid, h, "Err", NoProof, NoHeader,
                            "client_failed", height(chain), req)

\* NetworkId::Elements: the proof and the header both come from the indexer.
SpvElementsBranch(txid, h) ==
    /\ chain' = chain
    /\ LET r1 == <<[kind |-> "get_merkle", a |-> h, b |-> 0]>>
           r2 == r1 \o <<[kind |-> "block_header_raw", a |-> h, b |-> 0]>>
       IN  \/ spv' = SpvOutcome("Elements", txid, h, "Err", NoProof, NoHeader,
                         "client_failed", height(chain), r1)
           \/ \E proof \in ProofReplies(txid, h) :
                 \/ spv' = SpvOutcome("Elements", txid, h, "Err", proof, NoHeader,
                               "client_failed", height(chain), r2)
                 \/ \E raw \in RawHeaderReplies(h) :
                       IF raw = <<>>
                       THEN spv' = SpvOutcome("Elements", txid, h, "Err", proof, NoHeader,
                                       "none", height(chain), r2)
                       ELSE spv' = SpvOutcome("Elements", txid, h,
                                       VerifyResult(verify_tx_proof(txid, proof, raw[1])),
                                       proof, raw[1], "remote", height(chain), r2)

\* The inputs of a call: the transaction id, the claimed height, the optional
\* batch size and the network.
MaxClaimed == 4

TxQueried == {Txid(5), Txid(10), ForgedTx}

ToDownload == {{}, {0}, {1}, {3000}}

SPVVerifyTx(net, txid, h, n) ==
    [network |-> net, txid |-> txid, height |-> h, headers_to_download |-> n]

\* line 51: the arm of the network of the input
spv_verify_tx_on(inp) ==
    \/ /\ inp.network = "Bitcoin"
       /\ \/ SpvProofBranch(inp.txid, inp.height)
          \/ SpvHeadersBranch(inp.txid, inp.height, inp.headers_to_download)
    \/ /\ inp.network = "Elements"
       /\ SpvElementsBranch(inp.txid, inp.height)

spv_verify_tx ==
    /\ \E net \in {"Bitcoin", "Elements"}, txid \in TxQueried, h \in 0..MaxClaimed,
            n \in ToDownload :
          /\ input' = SPVVerifyTx(net, txid, h, n)
          /\ spv_verify_tx_on(input')
    /\ UNCHANGED walletVars

InitSpvVars ==
    /\ chain = <<GenuineHeader(0)>>
    /\ spv = SpvOutcome("None", <<>>, 0, "None", NoProof, NoHeader, "none", 0, <<>>)
    /\ input = SPVVerifyTx("None", <<>>, 0, {})

\* The caller re-invokes spv_verify_tx with the same input until it gets a
\* result other than CallMeAgain, against an indexer that does not fail and
\* that answers a header request with the headers asked for.
HonestPrefix(n) == [i \in 1..n |-> GenuineHeader(i - 1)]

verify_again ==
    /\ spv.res \notin {"Verified", "NotVerified"}
    /\ spv_verify_tx_on(input)
    /\ spv'.res # "Err"
    /\ spv'.res = "CallMeAgain"
          => chain' = push(chain, HonestHeaders(spv'.reqs[1].a, spv'.reqs[1].b))
    /\ UNCHANGED input
    /\ UNCHANGED walletVars

InitVerifyVars ==
    /\ \E n \in 1..(RemoteTip + 1) : chain = HonestPrefix(n)
    /\ \E net \in {"Bitcoin", "Elements"}, txid \in TxQueried, h \in 0..RemoteTip,
            n \in ToDownload :
          input = SPVVerifyTx(net, txid, h, n)
    /\ spv = SpvOutcome("None", <<>>, 0, "None", NoProof, NoHeader, "none", 0, <<>>)

(***************************************************************************)
(* The wallet.  Scripts are written <<chain selector, index>>; Foreign is  *)
(* a script no derivation path leads to.  A transaction id is the hash of  *)
(* the transaction, so the content of a transaction is a function of its   *)
(* id (TxBody) and the store is the set of ids it holds.                   *)
(***************************************************************************)
External == 0

Internal == 1

Foreign == <<2, 0>>

BATCH_SIZE == 2

Outpoint(t, v) == [txid |-> t, vout |-> v]

TxOut(s, v) == [script_pubkey |-> s, value |-> v]

\* Transaction 1 pays to the third external script; transaction 2 spends that
\* output and pays to the first internal and the first external script; 9 and
\* 8 are their ancestors.  11.. are single payments to the first external
\* script, the first of them spending the second.
HistTx == {1, 2}

NumFund == 4

FundTx == 11..(10 + NumFund)

FundValues == <<700, 1300, 1300, 2500, 900>>

FundValue(t) == FundValues[((t - 11) % Len(FundValues)) + 1]

AllTx == HistTx \cup {8, 9} \cup FundTx

TxBody(t) ==
    CASE t = 1 -> [input |-> <<Outpoint(9, 0)>>, output |-> <<TxOut(<<External, 2>>, 3000)>>]
      [] t = 2 -> [input |-> <<Outpoint(1, 0)>>,
                   output |-> <<TxOut(<<Internal, 0>>, 2000), TxOut(<<External, 0>>, 800)>>]
      [] t = 9 -> [input |-> <<Outpoint(8, 0)>>,
                   output |-> <<TxOut(Foreign, 3100), TxOut(Foreign, 1600)>>]
      [] t = 8 -> [input |-> <<>>, output |-> <<TxOut(Foreign, 5000)>>]
      [] t = 7 -> [input |-> <<>>, output |-> <<TxOut(<<External, 1>>, 5000)>>]
      [] t = 11 -> [input |-> <<Outpoint(12, 0)>>,
                    output |-> <<TxOut(<<External, 0>>, FundValue(t))>>]
      [] OTHER -> [input |-> <<Outpoint(8, 0)>>,
                   output |-> <<TxOut(<<External, 0>>, FundValue(t))>>]

\* The output an outpoint names, as a set: empty when the transaction is not
\* known or has no such output.
PrevOut(o) ==
    IF o.txid \in AllTx /\ o.vout + 1 \in DOMAIN TxBody(o.txid).output
    THEN {TxBody(o.txid).output[o.vout + 1]}
    ELSE {}

\* The indexer's view: the transactions it lists, each with a height (-1:
\* unconfirmed).  It lists a transaction under every script the transaction
\* pays to or spends from.
MaxHeight == 1

RemoteViews == UNION {[S -> (-1)..MaxHeight] : S \in SUBSET HistTx}

Touches(t, s) ==
    \/ \E i \in DOMAIN TxBody(t).output : TxBody(t).output[i].script_pubkey = s
    \/ \E i \in DOMAIN TxBody(t).input :
          \E o \in PrevOut(TxBody(t).input[i]) : o.script_pubkey = s

History(R, s) ==
    {[tx_hash |-> t, height |-> R[t]] : t \in {u \in DOMAIN R : Touches(u, s)}}

(***************************************************************************)
(* The durable store (db.rs), as a record of its trees.                    *)
(***************************************************************************)
Db == [idx |-> idx, paths |-> paths, txstore |-> txstore, headers |-> headers,
       heights |-> heights]

\* get_script_batch: the scripts of one batch, their entries created if new.
batch_indices(batch) == (batch * BATCH_SIZE)..(batch * BATCH_SIZE + BATCH_SIZE - 1)

get_script_batch(db, c, batch) ==
    [db EXCEPT !.paths = @ \cup {<<c, j>> : j \in batch_indices(batch)}]

insert_index(db, c, value) == [db EXCEPT !.idx[c] = value]

\* increment_index: add one to the counter; the new value is handed out.
increment_index(db, c) == [db EXCEPT !.idx[c] = @ + 1]

get_all_txid(db) == db.txstore

insert_tx(db, t) == [db EXCEPT !.txstore = @ \cup {t}]

get_only_heights(db) == db.headers

insert_header(db, h) == [db EXCEPT !.headers = @ \cup {h}]

insert_height(db, t, h) ==
    [db EXCEPT !.heights = [u \in DOMAIN @ \cup {t} |-> IF u = t THEN h ELSE @[u]]]

remove_height(db, t) ==
    [db EXCEPT !.heights = [u \in DOMAIN @ \ {t} |-> @[u]]]

get_only_txids(db) == DOMAIN db.heights

is_mine(db, script) == script \in db.paths

\* get_all_spent_and_txs: the outpoints spent by the stored transactions.
get_all_spent(db) ==
    UNION {{TxBody(t).input[i] : i \in DOMAIN TxBody(t).input} : t \in db.txstore}

(***************************************************************************)
(* WalletCtx::sync.  fail_at = n > 0 makes the n-th request to the client  *)
(* of this pass fail (if the pass makes that many); 0 lets all succeed.    *)
(***************************************************************************)
Max(S) == CHOOSE x \in S : \A y \in S : y <= x

\* line 191 with > for >=: an entry at height 0 would not count as confirmed
is_confirmed_above_zero(el) == el.height > 0

\* line 191: an entry of the history is confirmed when its height is not negative
is_confirmed(el) == el.height >= 0

\* lines 170-199: the scan of one chain selector from batch batch_count on.
\* acc carries the store, last_used, the accumulated sets and the number of
\* requests made so far.
RECURSIVE scan(_, _, _, _, _)
scan(R, i, batch_count, acc, fail_at) ==
    LET db1 == get_script_batch(acc.db, i, batch_count)
        calls == acc.calls + 1
    IN  IF calls = fail_at
        THEN [acc EXCEPT !.db = db1, !.calls = calls, !.failed = TRUE]
        ELSE LET used == {j \in 0..(BATCH_SIZE - 1) :
                             History(R, <<i, batch_count * BATCH_SIZE + j>>) # {}}
                 last_used == IF used # {}
                              THEN [acc.last_used EXCEPT ![i] = Max(used) + batch_count * BATCH_SIZE]
                              ELSE acc.last_used
                 flattened == UNION {History(R, <<i, j>>) : j \in batch_indices(batch_count)}
                 acc1 == [acc EXCEPT !.db = db1, !.calls = calls, !.last_used = last_used]
             IN  IF flattened = {}
                 THEN acc1
                 ELSE CHOOSE r \in
                        {scan(R, i, batch_count + 1, acc2, fail_at) : acc2 \in
                          {[acc1 EXCEPT
                               !.history_txs_id = @ \cup {el.tx_hash : el \in flattened},
                               !.heights_set = @ \cup {el.height : el \in {e \in flattened : is_confirmed(e)}},
                               !.txid_height = @ \cup {<<el.tx_hash, el.height>> :
                                                        el \in {e \in flattened : is_confirmed(e)}}]}} :
                        TRUE

\* lines 166-200: both chain selectors, external first.
scan_all(db, R, fail_at) ==
    LET acc0 == [db |-> db, calls |-> 0, failed |-> FALSE,
                 last_used |-> [c \in {External, Internal} |-> 0],
                 history_txs_id |-> {}, heights_set |-> {}, txid_height |-> {}]
    IN  CHOOSE r \in
            {IF acc1.failed THEN acc1 ELSE scan(R, Internal, 0, acc1, fail_at) :
                acc1 \in {scan(R, External, 0, acc0, fail_at)}} : TRUE

\* line 198 without the increment: the same batch is requested again
next_batch_count_same(batch_count) == batch_count

\* line 198: batch_count += 1
next_batch_count(batch_count) == batch_count + 1

\* lines 171-198: one turn of the loop for chain selector i, the request
\* answered: the accumulated values after it and whether the loop is left
scan_iteration(R, i, batch_count, acc) ==
    LET db1 == get_script_batch(acc.db, i, batch_count)
        used == {j \in 0..(BATCH_SIZE - 1) :
                    History(R, <<i, batch_count * BATCH_SIZE + j>>) # {}}
        last_used == IF used # {}
                     THEN [acc.last_used EXCEPT ![i] = Max(used) + batch_count * BATCH_SIZE]
                     ELSE acc.last_used
        flattened == UNION {History(R, <<i, j>>) : j \in batch_indices(batch_count)}
        confirmed == {e \in flattened : is_confirmed(e)}
    IN  [break |-> flattened = {},
         acc |-> [acc EXCEPT !.db = db1, !.calls = @ + 1, !.last_used = last_used,
                             !.history_txs_id = @ \cup {el.tx_hash : el \in flattened},
                             !.heights_set = @ \cup {el.height : el \in confirmed},
                             !.txid_height = @ \cup {<<el.tx_hash, el.height>> : el \in confirmed}]]

\* lines 201-202 adding last_used to the stored value instead of storing it
store_last_used_added(db, last_used) ==
    insert_index(insert_index(db, External, db.idx[External] + last_used[External]),
                 Internal, db.idx[Internal] + last_used[Internal])

\* lines 201-202
store_last_used(db, last_used) ==
    insert_index(insert_index(db, External, last_used[External]), Internal, last_used[Internal])

\* insert_tx for every transaction of a reply
RECURSIVE insert_txs(_, _)
insert_txs(db, txs) ==
    IF txs = {} THEN db
    ELSE LET t == CHOOSE x \in txs : TRUE IN insert_txs(insert_tx(db, t), txs \ {t})

RECURSIVE insert_headers(_, _)
insert_headers(db, hs) ==
    IF hs = {} THEN db
    ELSE LET h == CHOOSE x \in hs : TRUE IN insert_headers(insert_header(db, h), hs \ {h})

\* lines 205-213 alone: the transactions the inputs spend from are not fetched
download_txs_first_layer(st, history_txs_id, fail_at) ==
    LET txs_to_download == history_txs_id \ get_all_txid(st.db)
    IN  IF txs_to_download = {} THEN st
        ELSE IF st.calls + 1 = fail_at
        THEN [st EXCEPT !.calls = @ + 1, !.failed = TRUE]
        ELSE [st EXCEPT !.db = insert_txs(@, txs_to_download), !.calls = @ + 1]

\* lines 205-227: the referenced transactions the store lacks, then, in one
\* more request, the transactions their inputs spend from.
download_txs(st, history_txs_id, fail_at) ==
    LET txs_in_db == get_all_txid(st.db)
        txs_to_download == history_txs_id \ txs_in_db
    IN  IF txs_to_download = {} THEN st
        ELSE IF st.calls + 1 = fail_at
        THEN [st EXCEPT !.calls = @ + 1, !.failed = TRUE]
        ELSE LET db1 == insert_txs(st.db, txs_to_download)
                 txs_in_db1 == txs_in_db \cup txs_to_download
                 previous_txs_to_download ==
                     UNION {{TxBody(t).input[k].txid : k \in DOMAIN TxBody(t).input} :
                            t \in txs_to_download}
                 txs_to_download2 == previous_txs_to_download \ txs_in_db1
             IN  IF txs_to_download2 = {}
                 THEN [st EXCEPT !.db = db1, !.calls = @ + 1]
                 ELSE IF st.calls + 2 = fail_at
                 THEN [st EXCEPT !.db = db1, !.calls = @ + 2, !.failed = TRUE]
                 ELSE [st EXCEPT !.db = insert_txs(db1, txs_to_download2), !.calls = @ + 2]

\* A transaction as the indexer sends it: the id its bytes hash to, which
\* does not cover the witness, and the witness the bytes carry (0: the one the
\* network knows).
Tx(txid, witness) == [txid |-> txid, witness |-> witness]

\* insert_tx on the stored bytes: an upsert of the key txid
upsert_tx(bytes, tx) ==
    [u \in DOMAIN bytes \cup {tx.txid} |-> IF u = tx.txid THEN tx.witness ELSE bytes[u]]

RECURSIVE upsert_txs(_, _)
upsert_txs(bytes, txs) ==
    IF txs = {} THEN bytes
    ELSE LET tx == CHOOSE x \in txs : TRUE IN upsert_txs(upsert_tx(bytes, tx), txs \ {tx})

\* lines 205-206: the ids of the first request for transactions
first_request(st, history_txs_id) == history_txs_id \ get_all_txid(st.db)

\* lines 210-218: the ids of the second request, the first one answered with
\* reply1: the transactions the inputs of the reply spend from
second_request(st, history_txs_id, reply1) ==
    LET ids1 == {tx.txid : tx \in reply1}
        previous_txs_to_download ==
            UNION {{TxBody(t).input[k].txid : k \in DOMAIN TxBody(t).input} : t \in ids1}
    IN  IF first_request(st, history_txs_id) = {} THEN {}
        ELSE previous_txs_to_download \ (get_all_txid(st.db) \cup ids1)

\* lines 205-227 with the replies of the indexer as they come: every
\* transaction of a reply is inserted under the id of its bytes (lines 212,
\* 223).
download_txs_replied(st, bytes, history_txs_id, reply1, reply2) ==
    LET txs_to_download == first_request(st, history_txs_id)
        txs_to_download2 == second_request(st, history_txs_id, reply1)
        db1 == insert_txs(st.db, {tx.txid : tx \in reply1})
        bytes1 == upsert_txs(bytes, reply1)
    IN  IF txs_to_download = {}
        THEN [st |-> st, bytes |-> bytes, requested |-> {}]
        ELSE IF txs_to_download2 = {}
        THEN [st |-> [st EXCEPT !.db = db1, !.calls = @ + 1], bytes |-> bytes1,
              requested |-> txs_to_download]
        ELSE [st |-> [st EXCEPT !.db = insert_txs(db1, {tx.txid : tx \in reply2}),
                                !.calls = @ + 2],
              bytes |-> upsert_txs(bytes1, reply2),
              requested |-> txs_to_download \cup txs_to_download2]

\* lines 229-238 with the error of the request dropped: the pass goes on
download_headers_error_dropped(st, heights_set, fail_at) ==
    LET heights_to_download == heights_set \ get_only_heights(st.db)
    IN  IF heights_to_download = {} THEN st ELSE [st EXCEPT !.calls = @ + 1]

\* lines 229-238: the headers of the heights seen, where the store has none.
download_headers(st, heights_set, fail_at) ==
    LET heights_to_download == heights_set \ get_only_heights(st.db)
    IN  IF heights_to_download = {} THEN st
        ELSE IF st.calls + 1 = fail_at
        THEN [st EXCEPT !.calls = @ + 1, !.failed = TRUE]
        ELSE [st EXCEPT !.db = insert_headers(@, heights_to_download), !.calls = @ + 1]

\* lines 241-243: insert_height for every entry of txid_height
RECURSIVE insert_all_heights(_, _)
insert_all_heights(db, txid_height) ==
    IF txid_height = {} THEN db
    ELSE LET e == CHOOSE x \in txid_height : TRUE
         IN  insert_all_heights(insert_height(db, e[1], e[2]), txid_height \ {e})

\* lines 244-248: remove_height for every stored id that txid_height lacks
RECURSIVE remove_stale_heights(_, _, _)
remove_stale_heights(db, todo, txid_height) ==
    IF todo = {} THEN db
    ELSE LET t == CHOOSE x \in todo : TRUE
             db1 == IF \E e \in txid_height : e[1] = t THEN db ELSE remove_height(db, t)
         IN  remove_stale_heights(db1, todo \ {t}, txid_height)

\* lines 240-243 alone: the stored ids that txid_height lacks keep their height
sync_heights_keeping_stale(db, txid_height) == insert_all_heights(db, txid_height)

\* lines 240-248
sync_heights(db, txid_height) ==
    LET db1 == insert_all_heights(db, txid_height)
    IN  remove_stale_heights(db1, get_only_txids(db1), txid_height)

\* lines 229-248 with the heights written before the headers are requested
sync_from_headers_heights_first(a, st1, fail_at) ==
    CHOOSE r \in
        {IF st2.failed
         THEN [db |-> sync_heights(st2.db, a.txid_height), ok |-> FALSE, calls |-> st2.calls,
               stage |-> "headers"]
         ELSE [db |-> sync_heights(st2.db, a.txid_height), ok |-> TRUE,
               calls |-> st2.calls, stage |-> "done"] :
            st2 \in {download_headers(st1, a.heights_set, fail_at)}} : TRUE

\* lines 229-248, st1 being the pass after the transactions were stored
sync_from_headers(a, st1, fail_at) ==
    CHOOSE r \in
        {IF st2.failed
         THEN [db |-> st2.db, ok |-> FALSE, calls |-> st2.calls, stage |-> "headers"]
         ELSE [db |-> sync_heights(st2.db, a.txid_height), ok |-> TRUE,
               calls |-> st2.calls, stage |-> "done"] :
            st2 \in {download_headers(st1, a.heights_set, fail_at)}} : TRUE

\* lines 201-248, a being the pass after the scan of both chains
sync_from_indexes(a, fail_at) ==
    CHOOSE r \in
        {IF st1.failed
         THEN [db |-> st1.db, ok |-> FALSE, calls |-> st1.calls, stage |-> "transactions"]
         ELSE sync_from_headers(a, st1, fail_at) :
            st1 \in {download_txs([db |-> store_last_used(a.db, a.last_used),
                                   calls |-> a.calls, failed |-> FALSE],
                                  a.history_txs_id, fail_at)}} : TRUE

\* The pass as a whole: the store it leaves, whether it returned Ok, the
\* number of requests it made and the step whose request failed.  Each step
\* is computed once and handed on as a value.
sync(db, R, fail_at) ==
    CHOOSE r \in
        {IF a.failed
         THEN [db |-> a.db, ok |-> FALSE, calls |-> a.calls, stage |-> "history"]
         ELSE sync_from_indexes(a, fail_at) :
            a \in {scan_all(db, R, fail_at)}} : TRUE

\* The writes to the store a pass makes after the scan, in the order of the
\* code, each step with the set of items its loop writes one by one
StoreSteps == <<"index", "transactions", "previous", "headers", "heights", "stale">>

RECURSIVE remove_heights(_, _)
remove_heights(db, txids) ==
    IF txids = {} THEN db
    ELSE LET t == CHOOSE x \in txids : TRUE IN remove_heights(remove_height(db, t), txids \ {t})

\* The transactions the inputs of the transactions of txs spend from
previous_txs(txs) ==
    UNION {{TxBody(t).input[k].txid : k \in DOMAIN TxBody(t).input} : t \in txs}

\* lines 201-248 with an error of the store at step `step`: what the failing
\* step would have written (items) and the store as the pass leaves it when
\* the writes of `part` were made before the error (the loops of lines 211,
\* 222, 234, 241 and 245 take their items in no fixed order).  a is the pass
\* after the scan; db0 .. db4 are the store after the indexes, the
\* transactions, the previous transactions, the headers and the heights
\* were written.
sync_store_error_on(step, a, db0, db1, db2, db3, db4) ==
    LET want1 == a.history_txs_id \ get_all_txid(db0)
        want2 == previous_txs(want1) \ get_all_txid(db1)
        hs == a.heights_set \ get_only_heights(db2)
        stale == {t \in get_only_txids(db4) : \A e \in a.txid_height : e[1] # t}
    IN  CASE step = "index" ->
               [items |-> {External, Internal},
                after |-> [part \in SUBSET {External} |->
                             IF part = {} THEN a.db
                             ELSE insert_index(a.db, External, a.last_used[External])]]
          [] step = "transactions" ->
               [items |-> want1, after |-> [part \in SUBSET want1 |-> insert_txs(db0, part)]]
          [] step = "previous" ->
               [items |-> want2, after |-> [part \in SUBSET want2 |-> insert_txs(db1, part)]]
          [] step = "headers" ->
               [items |-> hs, after |-> [part \in SUBSET hs |-> insert_headers(db2, part)]]
          [] step = "heights" ->
               [items |-> a.txid_height,
                after |-> [part \in SUBSET a.txid_height |-> insert_all_heights(db3, part)]]
          [] step = "stale" ->
               [items |-> stale, after |-> [part \in SUBSET stale |-> remove_heights(db4, part)]]

(***************************************************************************)
(* WalletCtx::list_tx.  A u32 is written as two 16-bit limbs, the high one *)
(* first, so that u32::MAX is a value of the model.                        *)
(***************************************************************************)
Limb == 65536

u32(n) == <<n \div Limb, n % Limb>>

U32_MAX == <<Limb - 1, Limb - 1>>

\* Ord::cmp of self against other
cmp(self, other) ==
    IF self[1] < other[1] \/ (self[1] = other[1] /\ self[2] < other[2]) THEN "Less"
    ELSE IF self = other THEN "Equal"
    ELSE "Greater"

\* get_my: the transactions of the wallet, each with its height if it has one
get_my(db) ==
    {[tx_id |-> t, height |-> IF t \in DOMAIN db.heights THEN {db.heights[t]} ELSE {}] :
        t \in {u \in db.txstore : \E sc \in db.paths : Touches(u, sc)}}

Range(f) == {f[x] : x \in DOMAIN f}

\* The orders in which an iteration may yield the elements of S
Orderings(S) ==
    {f \in [1..Cardinality(S) -> S] : \A i, j \in 1..Cardinality(S) : f[i] = f[j] => i = j}

\* the output an outpoint names, if the store holds its transaction
get_previous_output(db, o) == IF o.txid \in db.txstore THEN PrevOut(o) ELSE {}

RECURSIVE sum_previous(_, _, _)
sum_previous(db, inputs, only_mine) ==
    IF inputs = <<>> THEN 0
    ELSE LET prev == {o \in get_previous_output(db, Head(inputs)) :
                         only_mine => is_mine(db, o.script_pubkey)}
         IN  (IF prev = {} THEN 0 ELSE (CHOOSE o \in prev : TRUE).value)
                 + sum_previous(db, Tail(inputs), only_mine)

RECURSIVE sum_outputs(_, _, _)
sum_outputs(db, outputs, only_mine) ==
    IF outputs = <<>> THEN 0
    ELSE (IF only_mine => is_mine(db, Head(outputs).script_pubkey)
          THEN Head(outputs).value ELSE 0)
             + sum_outputs(db, Tail(outputs), only_mine)

\* lines 298-300 with a and b exchanged: ascending height
sort_key_cmp_ascending(a, b) ==
    cmp(unwrap_or({u32(h) : h \in a.height}, U32_MAX),
        unwrap_or({u32(h) : h \in b.height}, U32_MAX))

\* lines 298-300: the comparison the list is sorted by
sort_key_cmp(a, b) ==
    cmp(unwrap_or({u32(h) : h \in b.height}, U32_MAX),
        unwrap_or({u32(h) : h \in a.height}, U32_MAX))

\* slice::sort_by is stable: an element goes after those that are not Greater
RECURSIVE sort_by(_)
sort_by(txs) ==
    IF txs = <<>> THEN <<>>
    ELSE LET n == Len(txs)
             sorted == sort_by(SubSeq(txs, 1, n - 1))
             k == Cardinality({i \in DOMAIN sorted : sort_key_cmp(sorted[i], txs[n]) # "Greater"})
         IN  SubSeq(sorted, 1, k) \o <<txs[n]>> \o SubSeq(sorted, k + 1, n - 1)

\* lines 260-297: the loop over get_my from entry i on.  total_input -
\* total_output is a u64 subtraction: when it underflows, a build with
\* overflow checks panics and one without wraps (a negative fee d stands for
\* 2^64 + d).
RECURSIVE list_tx_loop(_, _, _, _, _)
list_tx_loop(db, my, i, txs, overflow_checks) ==
    IF i > Len(my) THEN [res |-> "Ok", txs |-> txs]
    ELSE LET tx_id == my[i].tx_id
             tx_height == my[i].height
         IN  IF tx_id \notin db.txstore
             THEN [res |-> "Err", error |-> "no tx", txs |-> <<>>]
             ELSE IF \E h \in tx_height : h \notin db.headers
             THEN [res |-> "Err", error |-> "no header", txs |-> <<>>]
             ELSE LET tx == TxBody(tx_id)
                      total_output == sum_outputs(db, tx.output, FALSE)
                      total_input == sum_previous(db, tx.input, FALSE)
                      fee == total_input - total_output
                      tx_meta == [txid |-> tx_id, height |-> tx_height,
                                  received |-> sum_outputs(db, tx.output, TRUE),
                                  sent |-> sum_previous(db, tx.input, TRUE),
                                  fee |-> fee]
                  IN  IF fee < 0 /\ overflow_checks
                      THEN [res |-> "Panic", error |-> "attempt to subtract with overflow",
                            txs |-> <<>>]
                      ELSE list_tx_loop(db, my, i + 1, Append(txs, tx_meta), overflow_checks)

\* lines 255-302: the list for one order of get_my
list_tx_on(db, my, overflow_checks) ==
    LET r == list_tx_loop(db, my, 1, <<>>, overflow_checks)
    IN  IF r.res = "Ok" THEN [res |-> "Ok", txs |-> sort_by(r.txs)] ELSE r

(***************************************************************************)
(* WalletCtx::utxos: the outputs of the tracked transactions that pay to a *)
(* script of the wallet and that no stored transaction spends, sorted by   *)
(* value, largest first.  The order of equal values is that of a hash set  *)
(* iteration, so every order is possible.                                  *)
(***************************************************************************)
unspent_mine(db) ==
    {[outpoint |-> Outpoint(t, v - 1), txout |-> TxBody(t).output[v]] :
        <<t, v>> \in {tv \in get_only_txids(db) \X (1..2) :
                        /\ tv[2] \in DOMAIN TxBody(tv[1]).output
                        /\ is_mine(db, TxBody(tv[1]).output[tv[2]].script_pubkey)
                        /\ Outpoint(tv[1], tv[2] - 1) \notin get_all_spent(db)}}

\* line 321: utxos.sort_by(|a, b| b.1.value.cmp(&a.1.value))
RECURSIVE sorted_by_value_desc(_)
sorted_by_value_desc(S) ==
    IF S = {} THEN {<<>>}
    ELSE UNION {{<<u>> \o rest : rest \in sorted_by_value_desc(S \ {u})} :
                u \in {x \in S : \A y \in S : x.txout.value >= y.txout.value}}

\* the tracked ids whose transaction the store lacks make utxos fail ("no tx")
utxos_fails(db) == \E t \in get_only_txids(db) : t \notin db.txstore

utxos(db) == sorted_by_value_desc(unspent_mine(db))

(***************************************************************************)
(* WalletCtx::create_tx                                                    *)
(***************************************************************************)
DefaultFeeRate == 1000

DustThreshold == 546

EmptyTxSize == 10

TxInSize == 41

SignatureSlack == 50

\* lines 342 and 348: fee_rate = rate / 1000.0 * 1.3; fee = (bytes * fee_rate) as u64
calc_fee_bytes(bytes, rate) == (bytes * rate * 13) \div 10000

RECURSIVE sum_satoshi(_)
sum_satoshi(addressees) ==
    IF addressees = <<>> THEN 0 ELSE Head(addressees).satoshi + sum_satoshi(Tail(addressees))

RECURSIVE outputs_fee(_, _)
outputs_fee(addressees, rate) ==
    IF addressees = <<>> THEN 0
    ELSE calc_fee_bytes(Head(addressees).size, rate) + outputs_fee(Tail(addressees), rate)

\* line 368 without the fee: the loop stops once the payment alone is covered
needs_more_unpaid_fee(selected_amount, outgoing, fee_val) == selected_amount < outgoing

\* line 368: the loop goes on while the inputs do not cover payment and fee
needs_more(selected_amount, outgoing, fee_val) == selected_amount < outgoing + fee_val

\* line 370: utxos.pop() takes the last element of the vector
pop_index(us) == Len(us)

\* lines 367-383: the selection loop
RECURSIVE select_coins(_, _, _)
select_coins(us, st, rate) ==
    IF ~needs_more(st.selected_amount, st.outgoing, st.fee_val)
    THEN [st EXCEPT !.res = "Ok"]
    ELSE IF us = <<>>
    THEN [st EXCEPT !.res = "InsufficientFunds"]
    ELSE LET k == pop_index(us)
             u == us[k]
             rest == [j \in 1..(Len(us) - 1) |-> IF j < k THEN us[j] ELSE us[j + 1]]
         IN  select_coins(rest,
                 [st EXCEPT !.input = Append(@, u),
                            !.fee_val = @ + calc_fee_bytes(TxInSize + SignatureSlack, rate),
                            !.selected_amount = @ + u.txout.value],
                 rate)

\* line 386 with >= for >: change equal to the dust threshold would be paid
has_change_at_dust(change_val) == change_val >= DustThreshold

\* line 386: a change output is added when the change exceeds the dust threshold
has_change(change_val) == change_val > DustThreshold

\* line 387 with the external chain advanced instead
change_chain_external == External

\* line 387: the chain whose index the change address takes
change_chain == Internal

\* The call on one of the orders utxos() may return: the result and the store.
create_tx_on(db, request, us) ==
    LET rate == unwrap_or(request.fee_rate, DefaultFeeRate)
        outgoing == sum_satoshi(request.addressees)
        st0 == [res |-> "None", input |-> <<>>, selected_amount |-> 0, outgoing |-> outgoing,
                fee_val |-> calc_fee_bytes(EmptyTxSize, rate) + outputs_fee(request.addressees, rate)]
        st == select_coins(us, st0, rate)
        change_val == st.selected_amount - st.outgoing - st.fee_val
        requested == [j \in DOMAIN request.addressees |->
                         [value |-> request.addressees[j].satoshi, is_mine |-> FALSE,
                          script_pubkey |-> Foreign]]
    IN  IF st.res # "Ok"
        THEN [db |-> db,
              out |-> [op |-> "create_tx", res |-> st.res, request |-> request, utxos |-> us,
                       input |-> st.input, output |-> <<>>, fee |-> st.fee_val,
                       outgoing |-> outgoing, selected_amount |-> st.selected_amount,
                       change_val |-> 0, change_index |-> 0]]
        ELSE IF has_change(change_val)
        THEN LET db1 == increment_index(db, change_chain)
                 change_index == db1.idx[change_chain]
             IN  [db |-> db1,
                  out |-> [op |-> "create_tx", res |-> "Ok", request |-> request, utxos |-> us,
                           input |-> st.input,
                           output |-> Append(requested,
                                        [value |-> change_val, is_mine |-> TRUE,
                                         script_pubkey |-> <<Internal, change_index>>]),
                           fee |-> st.fee_val, outgoing |-> outgoing,
                           selected_amount |-> st.selected_amount,
                           change_val |-> change_val, change_index |-> change_index]]
        ELSE [db |-> db,
              out |-> [op |-> "create_tx", res |-> "Ok", request |-> request, utxos |-> us,
                       input |-> st.input, output |-> requested, fee |-> st.fee_val,
                       outgoing |-> outgoing, selected_amount |-> st.selected_amount,
                       change_val |-> change_val, change_index |-> 0]]

(***************************************************************************)
(* WalletCtx::sign.  Keys, hashes and signatures are terms: a key pair is  *)
(* named by its derivation path, a signature by the message and the key.   *)
(***************************************************************************)
get_tx(db, txid) == IF txid \in db.txstore THEN {TxBody(txid)} ELSE {}

\* get_path: the derivation path recorded for a script, none if untracked
get_path(db, script) == IF script \in db.paths THEN {script} ELSE {}

derive_priv(path) == [xprv |-> path]

public_key(privkey) == [xpub |-> privkey.xprv]

hash160(bytes) == [hash160 |-> bytes]

p2pkh_script_pubkey(pk) == [p2pkh |-> hash160(pk)]

sighash_all(tx, input_index, witness_script, value) ==
    [tx |-> tx, input_index |-> input_index, witness_script |-> witness_script,
     value |-> value]

secp_sign(message, privkey) == [der |-> [message |-> message, key |-> privkey]]

\* lines 419-443: the public key of the path and the signature of input
\* input_index, the byte 0x01 pushed after it
internal_sign(tx, input_index, path, value) ==
    LET privkey == derive_priv(path)
        pubkey == public_key(privkey)
        witness_script == p2pkh_script_pubkey(pubkey)
        hash == sighash_all(tx, input_index, witness_script, value)
        signature == <<secp_sign(hash, privkey)>>
    IN  [pk |-> pubkey, sig |-> Append(signature, 1)]

\* lines 520-526 without the outer push: the script is 0 and the key hash
script_sig_not_pushed(pk) == <<0, [push |-> hash160(pk)]>>

\* lines 520-526: one push of the script made of 0 and the pushed key hash
script_sig(pk) == <<[push |-> <<0, [push |-> hash160(pk)]>>]>>

TxIn(outpoint) == [previous_output |-> outpoint, script_sig |-> <<>>, witness |-> <<>>]

NoTx == [input |-> <<>>, output |-> <<>>]

\* lines 449-474: the loop over the inputs from input i on; out_tx is the copy
\* signed so far.  tx.output[vout] panics for an index beyond the outputs.
RECURSIVE sign_inputs(_, _, _, _)
sign_inputs(db, request, out_tx, i) ==
    IF i > Len(request.input)
    THEN [res |-> "Ok", tx |-> out_tx]
    ELSE LET prev_output == request.input[i].previous_output
             tx == get_tx(db, prev_output.txid)
         IN  IF tx = {}
             THEN [res |-> "Err", error |-> "cannot find tx in db", tx |-> NoTx]
             ELSE LET outs == (CHOOSE t \in tx : TRUE).output
                  IN  IF prev_output.vout + 1 \notin DOMAIN outs
                      THEN [res |-> "Panic", error |-> "index out of bounds", tx |-> NoTx]
                      ELSE LET out == outs[prev_output.vout + 1]
                               derivation_path == get_path(db, out.script_pubkey)
                           IN  IF derivation_path = {}
                               THEN [res |-> "Err", error |-> "can't find derivation path",
                                     tx |-> NoTx]
                               ELSE LET r == internal_sign(request, i,
                                                CHOOSE x \in derivation_path : TRUE, out.value)
                                    IN  sign_inputs(db, request,
                                            [out_tx EXCEPT
                                                !.input[i].script_sig = script_sig(r.pk),
                                                !.input[i].witness = <<r.sig, r.pk>>],
                                            i + 1)

\* sign with a write to the store: the internal index advanced
sign_advancing_index(db, request) ==
    [db |-> increment_index(db, Internal), out |-> sign_inputs(db, request, request, 1)]

\* lines 445-479: the result and the store, which sign only reads
sign_on(db, request) == [db |-> db, out |-> sign_inputs(db, request, request, 1)]

(***************************************************************************)
(* The operations of the wallet as actions.                                *)
(***************************************************************************)
MaxIndex == 3

MaxFail == 8

\* The transactions an answer of the indexer may hold
MaxReply == 2

ReplyTx == {Tx(t, w) : t \in HistTx, w \in 0..1} \cup {Tx(9, 0)}

\* The histories the indexer answers with: a transaction is not listed,
\* listed without a height, or listed at height 0
UntrustedViews == {R \in RemoteViews : \A t \in DOMAIN R : R[t] <= 0}

Replies ==
    {S \in SUBSET ReplyTx :
        Cardinality(S) <= MaxReply /\ \A x, y \in S : x.txid = y.txid => x = y}

\* The requests one scan may make in the model
MaxRequests == 8

\* WalletCtx::get_address: the next external index
get_address ==
    /\ idx[External] < MaxIndex
    /\ \E db1 \in {increment_index(Db, External)} :
          /\ idx' = db1.idx
          /\ handed' = handed \cup {<<External, db1.idx[External]>>}
          /\ last' = [op |-> "get_address", res |-> "Ok", index |-> db1.idx[External],
                      reused |-> <<External, db1.idx[External]>> \in handed]
    /\ UNCHANGED <<paths, txstore, headers, heights, remote, chain, spv, input>>

\* WalletCtx::create_tx on one request
create_tx(request) ==
    /\ idx[Internal] < MaxIndex
    /\ IF utxos_fails(Db)
       THEN /\ last' = [op |-> "create_tx", res |-> "Err", request |-> request]
            /\ UNCHANGED <<idx, handed, paths, txstore, headers, heights>>
       ELSE \E us \in utxos(Db) :
               \E r \in {create_tx_on(Db, request, us)} :
               LET given == IF r.db.idx # idx
                            THEN {<<Internal, r.out.change_index>>} ELSE {}
               IN  /\ idx' = r.db.idx
                   /\ paths' = r.db.paths
                   /\ txstore' = r.db.txstore
                   /\ headers' = r.db.headers
                   /\ heights' = r.db.heights
                   /\ handed' = handed \cup given
                   /\ last' = r.out @@ [reused |-> given \cap handed # {}]
    /\ UNCHANGED <<remote, chain, spv, input>>

\* WalletCtx::sign on one unsigned transaction
sign(request) ==
    /\ \E r \in {sign_on(Db, request)} :
          /\ idx' = r.db.idx
          /\ paths' = r.db.paths
          /\ txstore' = r.db.txstore
          /\ headers' = r.db.headers
          /\ heights' = r.db.heights
          /\ last' = [op |-> "sign", res |-> r.out.res, request |-> request, tx |-> r.out.tx]
    /\ UNCHANGED <<remote, handed, chain, spv, input>>

\* WalletCtx::list_tx, once
list_tx ==
    /\ last.op = "None"
    /\ \E my \in Orderings(get_my(Db)), overflow_checks \in BOOLEAN :
          \E r \in {list_tx_on(Db, my, overflow_checks)} :
             last' = [op |-> "list_tx", res |-> r.res, my |-> my, txs |-> r.txs]
    /\ UNCHANGED <<idx, paths, txstore, headers, heights, remote, handed, chain, spv, input>>

\* The transactions with a stored height and stored bytes that the view R no
\* longer lists as confirmed.
unconfirmed_now(db, R) ==
    {t \in DOMAIN db.heights \cap db.txstore : t \notin DOMAIN R \/ R[t] < 0}

\* WalletCtx::sync against the indexer's current view
sync_ledger ==
    /\ \E fail_at \in 0..MaxFail :
          \E r \in {sync(Db, remote, fail_at)} :
              /\ idx' = r.db.idx
              /\ paths' = r.db.paths
              /\ txstore' = r.db.txstore
              /\ headers' = r.db.headers
              /\ heights' = r.db.heights
              /\ last' = [op |-> "sync", res |-> IF r.ok THEN "Ok" ELSE "Err",
                          after_sync |-> last.op = "sync" /\ last.res = "Ok",
                          changed |-> r.db # Db,
                          pre_idx |-> idx,
                          demoted |-> unconfirmed_now(Db, remote),
                          failed_request |-> IF fail_at <= r.calls THEN fail_at ELSE 0,
                          calls |-> r.calls, stage |-> r.stage]
    /\ UNCHANGED <<remote, handed, chain, spv, input>>

\* lines 160-169: sync is entered, nothing requested yet
scan_begin ==
    /\ last.op = "None"
    /\ last' = [op |-> "scan", res |-> "Running", i |-> External, batch_count |-> 0,
                requests |-> <<>>,
                acc |-> [db |-> Db, calls |-> 0, failed |-> FALSE,
                         last_used |-> [c \in {External, Internal} |-> 0],
                         history_txs_id |-> {}, heights_set |-> {}, txid_height |-> {}]]
    /\ UNCHANGED <<idx, paths, txstore, headers, heights, remote, handed, chain, spv, input>>

\* lines 170-199: one turn of the loop.  The request of the turn fails, or it
\* is answered and the loop goes on with the next batch, or it is left for the
\* next chain selector, or for the rest of the pass after the second one.
scan_step ==
    /\ last.op = "scan"
    /\ last.res = "Running"
    /\ Len(last.requests) < MaxRequests
    /\ \E answered \in BOOLEAN :
          \E r \in {scan_iteration(remote, last.i, last.batch_count, last.acc)} :
             /\ paths' = r.acc.db.paths
             /\ last' =
                   IF ~answered
                   THEN [last EXCEPT !.res = "Err",
                                     !.requests = Append(@, <<last.i, last.batch_count>>),
                                     !.acc = [@ EXCEPT !.db = r.acc.db, !.calls = @ + 1,
                                                       !.failed = TRUE]]
                   ELSE IF ~r.break
                   THEN [last EXCEPT !.batch_count = next_batch_count(@),
                                     !.requests = Append(@, <<last.i, last.batch_count>>),
                                     !.acc = r.acc]
                   ELSE IF last.i = External
                   THEN [last EXCEPT !.i = Internal, !.batch_count = 0,
                                     !.requests = Append(@, <<last.i, last.batch_count>>),
                                     !.acc = r.acc]
                   ELSE [last EXCEPT !.res = "Ok",
                                     !.requests = Append(@, <<last.i, last.batch_count>>),
                                     !.acc = r.acc]
    /\ UNCHANGED <<idx, txstore, headers, heights, remote, handed, chain, spv, input>>

\* WalletCtx::sync aborted by an error of the store: a write of one of the
\* steps fails, some of the writes of that step made before it
sync_store_error ==
    /\ \E a \in {scan_all(Db, remote, 0)} :
       \E db0 \in {store_last_used(a.db, a.last_used)} :
       \E db1 \in {insert_txs(db0, a.history_txs_id \ get_all_txid(db0))} :
       \E db2 \in {insert_txs(db1, previous_txs(a.history_txs_id \ get_all_txid(db0)))} :
       \E db3 \in {insert_headers(db2, a.heights_set)} :
       \E db4 \in {insert_all_heights(db3, a.txid_height)} :
       \E k \in DOMAIN StoreSteps :
       \E e \in {sync_store_error_on(StoreSteps[k], a, db0, db1, db2, db3, db4)} :
       \E part \in DOMAIN e.after :
           /\ part # e.items
           /\ \E db \in {e.after[part]} :
                 /\ idx' = db.idx
                 /\ paths' = db.paths
                 /\ txstore' = db.txstore
                 /\ headers' = db.headers
                 /\ heights' = db.heights
           /\ last' = [op |-> "sync_store_error", res |-> "Err", step |-> StoreSteps[k],
                       written |-> Cardinality(part)]
    /\ UNCHANGED <<remote, handed, chain, spv, input>>

\* The witness bytes held for every stored transaction
StoredBytes == IF "stored" \in DOMAIN last THEN last.stored ELSE <<>>

\* WalletCtx::sync against an indexer that is not trusted: the history it
\* answers with is one of the views, and its answer to a request for
\* transactions is any set of up to MaxReply transactions.
sync_untrusted ==
    /\ \E R \in UntrustedViews :
          \E a \in {scan_all(Db, R, 0)} :
          \E st0 \in {[db |-> store_last_used(a.db, a.last_used), calls |-> a.calls,
                       failed |-> FALSE]} :
          \E reply1 \in (IF first_request(st0, a.history_txs_id) = {}
                         THEN {{}} ELSE Replies) :
          \E reply2 \in (IF second_request(st0, a.history_txs_id, reply1) = {}
                         THEN {{}} ELSE Replies) :
          \E d \in {download_txs_replied(st0, StoredBytes, a.history_txs_id, reply1, reply2)} :
          \E r \in {sync_from_headers(a, d.st, 0)} :
              /\ idx' = r.db.idx
              /\ paths' = r.db.paths
              /\ txstore' = r.db.txstore
              /\ headers' = r.db.headers
              /\ heights' = r.db.heights
              /\ remote' = R
              /\ last' = [op |-> "sync_untrusted", res |-> "Ok", stored |-> d.bytes,
                          requested |-> d.requested]
    /\ UNCHANGED <<handed, chain, spv, input>>

\* The indexer's view changes: a transaction is listed, confirmed at a height,
\* moved to another height, unconfirmed again or dropped.
remote_changes ==
    /\ \E t \in HistTx :
          \/ \E h \in (-1)..MaxHeight :
                /\ (t \in DOMAIN remote => remote[t] # h)
                /\ remote' = [u \in DOMAIN remote \cup {t} |-> IF u = t THEN h ELSE remote[u]]
          \/ /\ t \in DOMAIN remote
             /\ remote' = [u \in DOMAIN remote \ {t} |-> remote[u]]
    /\ last' = [op |-> "remote_changes", res |-> "Ok"]
    /\ UNCHANGED <<idx, paths, txstore, headers, heights, handed, chain, spv, input>>

Addressee(satoshi, size) == [satoshi |-> satoshi, size |-> size]

Request(addressees, fee_rate) == [addressees |-> addressees, fee_rate |-> fee_rate]

\* The requests made of a wallet that is also synchronised
LedgerRequests ==
    {Request(<<Addressee(a, 32)>>, {}) : a \in {500, 1000, 9000}}

\* The requests made of a wallet with a given set of coins
Amounts == {0, 400, 581, 582, 1400, 9000}

Addressees == {Addressee(a, sz) : a \in Amounts, sz \in {32, 34}}

BuildRequests ==
    {Request(as, r) :
        as \in {<<>>} \cup {<<a>> : a \in Addressees}
                 \cup {<<a, Addressee(1000, 34)>> : a \in Addressees},
        r \in {{}, {0}, {2500}}}

\* The transactions given to sign: one or two inputs out of an output of the
\* wallet, a second one, an output of somebody else, an index beyond the
\* outputs of a stored transaction, and a transaction the store may lack.
SignOutpoints ==
    {Outpoint(11, 0), Outpoint(13, 0), Outpoint(8, 0), Outpoint(11, 1), Outpoint(77, 0)}

SignRequests ==
    {[input |-> [i \in DOMAIN os |-> TxIn(os[i])], output |-> <<TxOut(Foreign, 400)>>] :
        os \in {<<o>> : o \in SignOutpoints}
                 \cup {<<o1, o2>> : o1 \in SignOutpoints, o2 \in SignOutpoints}}

\* The wallets listed: each of four transactions of the wallet is not yet
\* seen (-2), unconfirmed (-1), or confirmed at a height up to MaxListHeight;
\* the ancestors and the headers are those sync has stored with them.
MaxListHeight == 2

ListTx == {7, 12, 13, 14}

InitListVars ==
    \E status \in [ListTx -> (-2)..MaxListHeight] :
        LET seen == {t \in ListTx : status[t] >= -1}
            confirmed == {t \in seen : status[t] >= 0}
        IN  /\ idx = [c \in {External, Internal} |-> 0]
            /\ paths = {<<c, j>> : c \in {External, Internal}, j \in batch_indices(0)}
                           \cup {<<External, j>> : j \in batch_indices(1)}
            /\ txstore = seen \cup UNION {{i.txid : i \in Range(TxBody(t).input)} : t \in seen}
            /\ headers = {status[t] : t \in confirmed}
            /\ heights = [t \in confirmed |-> status[t]]
            /\ remote = [t \in seen |-> status[t]]
            /\ handed = {}
            /\ last = [op |-> "None", res |-> "None"]

InitWalletVars ==
    /\ idx = [c \in {External, Internal} |-> 0]
    /\ paths = {}
    /\ txstore = {}
    /\ headers = {}
    /\ heights = <<>>
    /\ remote = <<>>
    /\ handed = {}
    /\ last = [op |-> "None", res |-> "None"]

\* A wallet synchronised against an indexer that lists the payments F, all
\* confirmed at height 0.
InitBuildVars ==
    \E F \in SUBSET FundTx :
        /\ idx = [c \in {External, Internal} |-> 0]
        /\ paths = IF F = {}
                   THEN {<<c, j>> : c \in {External, Internal}, j \in batch_indices(0)}
                   ELSE {<<c, j>> : c \in {External, Internal}, j \in batch_indices(0)}
                            \cup {<<External, j>> : j \in batch_indices(1)}
        /\ txstore = IF F = {} THEN {} ELSE F \cup {8} \cup (IF 11 \in F THEN {12} ELSE {})
        /\ headers = IF F = {} THEN {} ELSE {0}
        /\ heights = [t \in F |-> 0]
        /\ remote = [t \in F |-> 0]
        /\ handed = {}
        /\ last = [op |-> "None", res |-> "None"]

(***************************************************************************)
(* Specifications: synchronisation against a changing indexer (Spec),      *)
(* payment verification (SpecSpv), transaction building over given coins   *)
(* (SpecBuild), and address allocation interleaved with building and       *)
(* synchronisation against any one view of the indexer (SpecAlloc).        *)
(***************************************************************************)
Init == InitSpvVars /\ InitWalletVars

Next ==
    \/ remote_changes
    \/ sync_ledger

Spec == Init /\ [][Next]_vars

NextSpv == spv_verify_tx

SpecSpv == Init /\ [][NextSpv]_vars

NextMerkle == fold_proof

InitMerkle == InitSpvVars /\ InitMerkleVars

SpecMerkle == InitMerkle /\ [][NextMerkle]_vars

\* spv_verify_tx opens its own chain file and its own client and shares nothing
\* with a WalletCtx: a behaviour is a run of the one or of the other.
NextFail ==
    \/ spv.res = "None" /\ remote_changes
    \/ spv.res = "None" /\ sync_ledger
    \/ last.op = "None" /\ spv_verify_tx

SpecFail == Init /\ [][NextFail]_vars

InitVerify == InitVerifyVars /\ InitWalletVars

NextVerify == verify_again

\* the caller keeps re-invoking: a call that can be made is eventually made
SpecVerify == InitVerify /\ [][NextVerify]_vars /\ WF_vars(verify_again)

InitBuild == InitSpvVars /\ InitBuildVars

NextBuild == \E request \in BuildRequests : create_tx(request)

SpecBuild == InitBuild /\ [][NextBuild]_vars

NextSign == \E request \in SignRequests : sign(request)

SpecSign == InitBuild /\ [][NextSign]_vars

InitList == InitSpvVars /\ InitListVars

NextList == list_tx

SpecList == InitList /\ [][NextList]_vars

InitAlloc ==
    /\ InitSpvVars
    /\ idx = [c \in {External, Internal} |-> 0]
    /\ paths = {}
    /\ txstore = {}
    /\ headers = {}
    /\ heights = <<>>
    /\ remote \in RemoteViews
    /\ handed = {}
    /\ last = [op |-> "None", res |-> "None"]

NextAlloc ==
    \/ get_address
    \/ \E request \in LedgerRequests : create_tx(request)
    \/ sync_ledger

SpecAlloc == InitAlloc /\ [][NextAlloc]_vars

NextAbort ==
    \/ remote_changes
    \/ sync_ledger
    \/ sync_store_error

SpecAbort == Init /\ [][NextAbort]_vars

NextUntrusted == sync_untrusted

SpecUntrusted == Init /\ [][NextUntrusted]_vars

\* the loop is one thread of control: a turn that can be taken is taken
NextScan ==
    \/ scan_begin
    \/ scan_step

SpecScan == InitAlloc /\ [][NextScan]_vars /\ WF_vars(NextScan)

(***************************************************************************)
(* Properties of payment verification (under SpecSpv).                     *)
(***************************************************************************)
SpvReturned == spv.res \in {"Verified", "NotVerified", "CallMeAgain"}

\* C1 as stated: whichever the network, a call whose claimed height is at or
\* beyond the height of the header chain returns CallMeAgain, never Verified.
C1_AnyNetworkNeedsHeaders ==
    (SpvReturned /\ spv.height >= spv.height_before) => spv.res = "CallMeAgain"

\* C1: on the Bitcoin network a call whose claimed height is at or beyond the
\* height of the header chain never returns Verified or NotVerified: it
\* returns CallMeAgain, or the error of the header request or of the append.
C1_BitcoinNeedsHeaders ==
    (spv.network = "Bitcoin" /\ spv.height >= spv.height_before)
        => spv.res \in {"CallMeAgain", "Err"}

C1_Witness ==
    /\ spv.network = "Bitcoin"
    /\ spv.height >= spv.height_before
    /\ spv.height_before >= 1
    /\ spv.res = "CallMeAgain"

\* C2 as stated: Verified is returned only if the proof folds from the
\* transaction id to the merkle root of the header the local chain holds at the
\* claimed height, and never on a header the indexer supplied in the call.
C2_VerifiedOnLocalHeader ==
    spv.res = "Verified"
        => /\ spv.src = "local"
           /\ spv.height < height(chain)
           /\ compute_merkle_root(spv.txid, spv.proof) = header_at(chain, spv.height).root

\* C2: on the Bitcoin network Verified is returned only if the proof folds to
\* the merkle root of the local chain's header at the claimed height; on the
\* Elements network only if it folds to the merkle root of the header the
\* indexer returned for that height in the same call.
C2_VerifiedOnHeaderOfNetwork ==
    spv.res = "Verified"
        => IF spv.network = "Bitcoin"
           THEN /\ spv.src = "local"
                /\ spv.height < height(chain)
                /\ spv.header = header_at(chain, spv.height)
                /\ compute_merkle_root(spv.txid, spv.proof) = header_at(chain, spv.height).root
           ELSE /\ spv.network = "Elements"
                /\ spv.src = "remote"
                /\ <<spv.header>> \in RawHeaderReplies(spv.height)
                /\ compute_merkle_root(spv.txid, spv.proof) = spv.header.root

C2_Witness ==
    /\ spv.res = "Verified"
    /\ spv.network = "Bitcoin"
    /\ spv.height >= 1
    /\ Len(spv.proof.merkle) >= 2

(***************************************************************************)
(* Properties of transaction building (under SpecBuild).                   *)
(***************************************************************************)
Built == last.op = "create_tx" /\ last.res = "Ok"

\* The coins utxos() returned that the first k inputs have not taken
NotYetSelected(k) ==
    {last.utxos[j] : j \in DOMAIN last.utxos} \ {last.input[m] : m \in 1..(k - 1)}

\* C3 as stated: every input coin selection adds is a coin of greatest value
\* among the coins not yet selected.
C3_LargestFirst ==
    last.op = "create_tx" /\ last.res \in {"Ok", "InsufficientFunds"}
        => \A k \in DOMAIN last.input :
              \A u \in NotYetSelected(k) : last.input[k].txout.value >= u.txout.value

\* C4: create_tx returns a transaction or InsufficientFunds; a returned
\* transaction's inputs total at least the payments plus the computed fee, and
\* the change selected_amount - outgoing - fee_val is not negative.
C4_NeverUnderFunded ==
    last.op = "create_tx"
        => /\ last.res \in {"Ok", "InsufficientFunds"}
           /\ last.res = "Ok"
                 => /\ last.selected_amount >= last.outgoing + last.fee
                    /\ last.change_val = last.selected_amount - last.outgoing - last.fee
                    /\ last.change_val >= 0
                    /\ last.selected_amount
                          = sum_satoshi([j \in DOMAIN last.input |->
                                            [satoshi |-> last.input[j].txout.value]])

C4_Witness ==
    /\ Built
    /\ Len(last.input) >= 2
    /\ last.outgoing > 0
    /\ last.fee > 0
    /\ last.selected_amount - last.input[Len(last.input)].txout.value
          \in last.outgoing..(last.outgoing + last.fee - 1)

C4_WitnessInsufficient ==
    /\ last.op = "create_tx"
    /\ last.res = "InsufficientFunds"
    /\ last.utxos # <<>>

\* The outputs of the returned transaction that pay back to the wallet
ChangeOutputs == {j \in DOMAIN last.output : last.output[j].is_mine}

\* C10: a change output of a returned transaction has a value above 546; when
\* the computed change is 546 or less the transaction has no change output and
\* exactly one output per addressee of the request.
C10_ChangeAboveDust ==
    Built
        => /\ \A j \in ChangeOutputs : last.output[j].value > 546
           /\ last.change_val <= 546
                 => /\ ChangeOutputs = {}
                    /\ Len(last.output) = Len(last.request.addressees)
                    /\ \A j \in DOMAIN last.output :
                          last.output[j].value = last.request.addressees[j].satoshi

C10_Witness ==
    /\ Built
    /\ last.change_val = 546
    /\ last.request.addressees # <<>>
    /\ ChangeOutputs = {}

C10_WitnessChange ==
    /\ Built
    /\ last.change_val = 547
    /\ ChangeOutputs # {}

(***************************************************************************)
(* Properties of index allocation (under SpecAlloc).                       *)
(***************************************************************************)
Allocated(l) == l.op \in {"get_address", "create_tx"} /\ l.res = "Ok"

\* C5 as stated: in every step of get_address, create_tx and sync no counter
\* of a chain selector decreases, and no index is handed out a second time
\* for the same chain selector.
C5_NeverDecrementedNeverReused ==
    [][/\ \A c \in {External, Internal} : idx'[c] >= idx[c]
       /\ Allocated(last') => ~last'.reused]_vars

(***************************************************************************)
(* Properties of synchronisation (under Spec).                             *)
(***************************************************************************)
Synced == last.op = "sync" /\ last.res = "Ok"

\* C6 as stated: the index stored for a chain selector after a pass of sync is
\* at least the index stored before the pass.
C6_LastUsedNeverDecreases ==
    last.op = "sync" => \A c \in {External, Internal} : idx[c] >= last.pre_idx[c]

\* C7: a transaction stored with a height that the indexer, in the next
\* successful pass, lists without a confirmed height or does not list has no
\* stored height after the pass, and the store still holds the transaction.
C7_ReorgClearsHeightKeepsTx ==
    Synced => \A t \in last.demoted : t \notin DOMAIN heights /\ t \in txstore

C7_Witness ==
    /\ Synced
    /\ \E t \in last.demoted : t \in DOMAIN remote /\ remote[t] < 0
    /\ \E t \in last.demoted : t \notin DOMAIN remote

\* The batches a pass requests for chain selector c from batch b on: up to and
\* including the first batch without history.
RECURSIVE ScannedBatches(_, _, _)
ScannedBatches(R, c, b) ==
    IF \A j \in batch_indices(b) : History(R, <<c, j>>) = {}
    THEN {b}
    ELSE {b} \cup ScannedBatches(R, c, b + 1)

ScannedScripts(R) ==
    UNION {{<<c, j>> : j \in UNION {batch_indices(b) : b \in ScannedBatches(R, c, 0)}} :
           c \in {External, Internal}}

\* The entries the indexer returns for the scanned scripts that have a height
ConfirmedSet(R) ==
    {<<el.tx_hash, el.height>> :
        el \in {e \in UNION {History(R, s) : s \in ScannedScripts(R)} : e.height >= 0}}

\* C8: after a successful pass a transaction id has the stored height x if and
\* only if the history returned for the scanned scripts lists it at the
\* height x >= 0.
C8_HeightsAreRemoteConfirmedSet ==
    Synced => {<<t, heights[t]>> : t \in DOMAIN heights} = ConfirmedSet(remote)

C8_Witness ==
    /\ Synced
    /\ \E t \in DOMAIN heights : heights[t] = 0
    /\ \E t \in DOMAIN remote : remote[t] < 0 /\ t \in txstore
    /\ last.demoted # {}

\* a confirmed transaction the pass did not reach: its script lies beyond the
\* first batch without history
C8_WitnessNotScanned ==
    /\ Synced
    /\ \E t \in DOMAIN remote : remote[t] >= 0 /\ t \notin DOMAIN heights

\* C9: a successful pass that follows a successful pass, the indexer's view
\* unchanged in between, leaves the indexes, the scripts, the transactions,
\* the headers and the heights as the first pass left them.
C9_SyncIdempotent ==
    (Synced /\ last.after_sync) => ~last.changed

C9_Witness ==
    /\ Synced
    /\ last.after_sync
    /\ DOMAIN heights # {}
    /\ idx[External] > 0
    /\ \E t \in txstore : t \notin DOMAIN heights

(***************************************************************************)
(* Properties of repeated payment verification (under SpecVerify).         *)
(***************************************************************************)
Terminal == spv.res \in {"Verified", "NotVerified"}

C12_OneBoundedHeaderRequest ==
    [][(spv'.network = "Bitcoin" /\ input'.height >= height(chain))
        => /\ Len(spv'.reqs) = 1
           /\ spv'.reqs[1].kind = "block_headers"
           /\ spv'.reqs[1].a = height(chain) + 1
           /\ spv'.reqs[1].b <= 2016
           /\ \A n \in input'.headers_to_download : n <= 2016 => spv'.reqs[1].b = n
           /\ spv'.res \in {"CallMeAgain", "Err"}
           /\ spv'.res = "CallMeAgain"
                 => \E hs \in HeaderReplies(chain[Len(chain)], height(chain) + 1,
                                            spv'.reqs[1].b) :
                       chain' = chain \o hs
           /\ spv'.res = "Err" => chain' = chain]_vars

C12_Witness ==
    /\ spv.network = "Bitcoin"
    /\ spv.res = "CallMeAgain"
    /\ input.headers_to_download = {3000}
    /\ spv.reqs = <<[kind |-> "block_headers", a |-> spv.height_before + 1, b |-> 2016]>>
    /\ height(chain) > spv.height_before + 1

(***************************************************************************)
(* Properties of the merkle fold (under SpecMerkle).                       *)
(***************************************************************************)
\* C13: the fold of the proof built from a tree, for any leaf of it, is the
\* root of the tree; with any one sibling replaced by a different digest the
\* fold differs from the root.
C13_FoldMatchesRootIffGenuine ==
    last.op = "compute_merkle_root"
        => (last.current = last.root <=> last.replaced = 0)

C13_Witness ==
    /\ last.op = "compute_merkle_root"
    /\ last.replaced = 2
    /\ Len(last.merkle.merkle) = 2
    /\ last.merkle.pos = 2
    /\ last.current # last.root

C13_WitnessGenuine ==
    /\ last.op = "compute_merkle_root"
    /\ last.replaced = 0
    /\ Len(last.merkle.merkle) = 2
    /\ last.merkle.pos = 3
    /\ last.current = last.root

(***************************************************************************)
(* Properties of the results of verification (under SpecSpv).              *)
(***************************************************************************)
\* C14 as stated: NotVerified is returned if and only if the fold of the
\* fetched proof differs from the merkle root of the header; a header that
\* cannot be read makes the call return an error, never NotVerified.
C14_NotVerifiedIffMismatch ==
    /\ spv.res = "NotVerified"
          <=> /\ spv.src \in {"local", "remote"}
              /\ compute_merkle_root(spv.txid, spv.proof) # spv.header.root
    /\ spv.src = "unreadable" => spv.res = "Err"

(***************************************************************************)
(* Properties of failing requests (under SpecFail).                        *)
(***************************************************************************)
NoRepeat(reqs) == \A i, j \in DOMAIN reqs : i # j => reqs[i] # reqs[j]

\* C15: a call of spv_verify_tx in which a request to the client fails returns
\* the error, with the chain as it was and the failed request the last and
\* made once.  A pass of sync in which the n-th request fails returns the
\* error after exactly n requests, and the steps after that request have not
\* run: the heights are as before; if the request was a history request the
\* indexes, transactions and headers are as before; if a transaction request,
\* the headers are.  A pass returns Ok only if none of its requests failed.
C15_FailurePropagates ==
    [][/\ spv'.src = "client_failed"
             => /\ spv'.res = "Err"
                /\ chain' = chain
                /\ NoRepeat(spv'.reqs)
       /\ last'.op = "sync"
             => /\ last'.res = "Err" <=> last'.failed_request # 0
                /\ last'.res = "Err"
                      => /\ last'.calls = last'.failed_request
                         /\ heights' = heights
                         /\ last'.stage = "history"
                               => idx' = idx /\ txstore' = txstore /\ headers' = headers
                         /\ last'.stage = "transactions" => headers' = headers]_vars

C15_Witness ==
    /\ last.op = "sync"
    /\ last.res = "Err"
    /\ last.stage = "headers"
    /\ last.failed_request >= 4
    /\ txstore # {}
    /\ heights = <<>>

C15_WitnessSpv ==
    /\ spv.src = "client_failed"
    /\ spv.network = "Elements"
    /\ Len(spv.reqs) = 2

(***************************************************************************)
(* Properties of signing (under SpecSign).                                 *)
(***************************************************************************)
\* The previous output of input i is not in the ledger
UnknownInput(i) == PrevOut(last.request.input[i].previous_output) = {}
                      \/ last.request.input[i].previous_output.txid \notin txstore

\* The previous output of input i is in the ledger and its script has no entry
UntrackedScript(i) ==
    /\ ~UnknownInput(i)
    /\ \A o \in PrevOut(last.request.input[i].previous_output) : o.script_pubkey \notin paths

\* C16 as stated: sign returns an error and no transaction whenever some
\* input's previous output is not in the ledger, an output index beyond the
\* outputs of the previous transaction included, or its script has no entry.
C16_ExplicitErrorOnUnknownInput ==
    (last.op = "sign"
        /\ \E i \in DOMAIN last.request.input : UnknownInput(i) \/ UntrackedScript(i))
    => last.res = "Err" /\ last.tx = NoTx

\* The output of the ledger that input i of the signed request spends
SpentOutput(i) == CHOOSE o \in PrevOut(last.request.input[i].previous_output) : TRUE

\* C17: in a transaction returned by sign every input has a witness of exactly
\* two items, the signature with the byte 0x01 after it and then the public
\* key derived along the path recorded for the script of its previous output,
\* and a script_sig that is one push of 0 and the hash160 of that key; the
\* outpoints, the number of inputs and the outputs are those of the request.
C17_SignedInputsCarryWitness ==
    (last.op = "sign" /\ last.res = "Ok") =>
        /\ Len(last.tx.input) = Len(last.request.input)
        /\ last.tx.output = last.request.output
        /\ \A i \in DOMAIN last.request.input :
              LET signed == last.tx.input[i]
                  key == derive_priv(CHOOSE p \in get_path(Db, SpentOutput(i).script_pubkey) : TRUE)
                  pk == public_key(key)
              IN  /\ signed.previous_output = last.request.input[i].previous_output
                  /\ Len(signed.witness) = 2
                  /\ signed.witness[2] = pk
                  /\ Len(signed.witness[1]) = 2
                  /\ signed.witness[1][2] = 1
                  /\ signed.witness[1][1] =
                         secp_sign(sighash_all(last.request, i, p2pkh_script_pubkey(pk),
                                               SpentOutput(i).value), key)
                  /\ Len(signed.script_sig) = 1
                  /\ signed.script_sig[1] = [push |-> <<0, [push |-> hash160(pk)]>>]

\* sign has returned a transaction of two inputs spending different outputs
C17_Witness ==
    /\ last.op = "sign"
    /\ last.res = "Ok"
    /\ Len(last.tx.input) = 2
    /\ last.tx.input[1].previous_output # last.tx.input[2].previous_output
    /\ SpentOutput(1).value # SpentOutput(2).value

\* C18: sign leaves the ledger as it was, whether it returns a transaction or
\* fails: both index counters, the script entries, the transactions stored,
\* the headers and the height map.
C18_SignLeavesLedgerUnchanged ==
    [][last'.op = "sign" => /\ idx' = idx
                            /\ paths' = paths
                            /\ txstore' = txstore
                            /\ headers' = headers
                            /\ heights' = heights]_vars

\* sign has failed on a ledger that holds transactions and script entries
C18_Witness ==
    /\ last.op = "sign"
    /\ last.res = "Err"
    /\ txstore # {}
    /\ paths # {}

\* sign has returned a transaction on such a ledger
C18_WitnessSigned ==
    /\ last.op = "sign"
    /\ last.res = "Ok"
    /\ txstore # {}
    /\ paths # {}

(***************************************************************************)
(* The frame of create_tx (under SpecBuild).                               *)
(***************************************************************************)
\* The ledger but for the two index counters
LedgerButIndexes == <<paths, txstore, headers, heights>>

\* C19: a create_tx that appends a change output advances the internal index
\* by exactly one; one that appends none, or fails with InsufficientFunds and
\* returns no transaction, leaves both indexes and the rest of the ledger as
\* they were.
C19_ChangeAdvancesInternalIndexOnly ==
    [][last'.op = "create_tx" /\ last'.res \in {"Ok", "InsufficientFunds"} =>
          LET appended == last'.res = "Ok"
                             /\ Len(last'.output) = Len(last'.request.addressees) + 1
          IN  /\ appended => idx'[Internal] = idx[Internal] + 1
              /\ ~appended => /\ idx' = idx
                              /\ LedgerButIndexes' = LedgerButIndexes
              /\ last'.res = "InsufficientFunds" => last'.output = <<>>]_vars

\* a second change output has been appended: the internal index is 2
C19_Witness ==
    /\ Built
    /\ ChangeOutputs # {}
    /\ idx[Internal] = 2

\* after a change output, a transaction without one was returned
C19_WitnessNoChange ==
    /\ Built
    /\ ChangeOutputs = {}
    /\ idx[Internal] = 1

\* after a change output, a call failed with InsufficientFunds
C19_WitnessInsufficient ==
    /\ last.op = "create_tx"
    /\ last.res = "InsufficientFunds"
    /\ idx[Internal] = 1

(***************************************************************************)
(* The order of the list (under SpecList).                                 *)
(***************************************************************************)
\* C20: in a list returned by list_tx no confirmed transaction comes before
\* an unconfirmed one, and of two confirmed transactions the one that comes
\* first has a height at least that of the other.
C20_UnconfirmedFirstThenDescending ==
    (last.op = "list_tx" /\ last.res = "Ok") =>
        \A i, j \in DOMAIN last.txs :
            i < j => /\ last.txs[j].height = {} => last.txs[i].height = {}
                     /\ \A hi \in last.txs[i].height, hj \in last.txs[j].height : hi >= hj

\* a list of an unconfirmed transaction and confirmed ones of three heights
\* was returned, get_my having yielded the lowest first and the unconfirmed last
C20_Witness ==
    /\ last.op = "list_tx"
    /\ last.res = "Ok"
    /\ Len(last.txs) >= 3
    /\ last.my[1].height = {0}
    /\ last.my[Len(last.my)].height = {}
    /\ \E i \in DOMAIN last.txs : last.txs[i].height = {MaxListHeight}

(***************************************************************************)
(* The scan of the script batches (under SpecScan).                        *)
(***************************************************************************)
\* The batch indices requested for chain selector c, in the order of request
BatchesOf(c) == SelectSeq(last.requests, LAMBDA q : q[1] = c)

\* The scripts of chain selector c the indexer has a history for
UsedScripts(c) == {j \in 0..(MaxRequests * BATCH_SIZE) : History(remote, <<c, j>>) # {}}

\* the batch has history for none of its scripts
EmptyBatch(c, b) == \A j \in batch_indices(b) : j \notin UsedScripts(c)

ScanEnded == last.op = "scan" /\ last.res \in {"Ok", "Err"}

\* C21: for each chain selector the batches are requested in the order 0, 1,
\* 2, ..., no batch is requested after one whose scripts all have an empty
\* history, and a selector is left only at such a batch; the scan ends; and
\* after a scan that was not aborted every script index up to last_used was
\* in a batch requested in that pass.
C21_ScanInOrderUntilEmptyBatch ==
    /\ [](last.op = "scan" =>
            \A c \in {External, Internal} :
                /\ \A k \in DOMAIN BatchesOf(c) : BatchesOf(c)[k][2] = k - 1
                /\ \A k \in DOMAIN BatchesOf(c) :
                      k < Len(BatchesOf(c)) => ~EmptyBatch(c, k - 1)
                /\ ((c = External /\ last.i = Internal) \/ last.res = "Ok")
                      => /\ BatchesOf(c) # <<>>
                         /\ EmptyBatch(c, Len(BatchesOf(c)) - 1)
                /\ last.res = "Ok" =>
                      \A j \in 0..last.acc.last_used[c] :
                          \E k \in DOMAIN BatchesOf(c) : j \in batch_indices(k - 1))
    /\ <>ScanEnded

\* a scan was not aborted and went beyond the first batch of both selectors
C21_Witness ==
    /\ last.op = "scan"
    /\ last.res = "Ok"
    /\ Len(BatchesOf(External)) >= 3
    /\ Len(BatchesOf(Internal)) >= 2
    /\ last.acc.last_used[External] >= BATCH_SIZE

(***************************************************************************)
(* The transactions a pass of sync stores (under Spec).                    *)
(***************************************************************************)
\* The transaction ids of the history returned for the scanned scripts
Referenced(R) == {el.tx_hash : el \in UNION {History(R, sc) : sc \in ScannedScripts(R)}}

\* The transactions the inputs of the transactions of S spend from
PreviousOf(S) == UNION {{i.txid : i \in Range(TxBody(t).input)} : t \in S}

\* The requests of a pass that are not for transactions: one per scanned
\* batch, and one for headers if a height seen has no stored header
OtherRequests(R, stored_headers) ==
    Cardinality(ScannedBatches(R, External, 0)) + Cardinality(ScannedBatches(R, Internal, 0))
        + (IF {e[2] : e \in ConfirmedSet(R)} \subseteq stored_headers THEN 0 ELSE 1)

\* C22: after a successful pass the store holds every transaction id of the
\* scanned history and, for every transaction the pass downloaded, the
\* transactions its inputs spend from; these are fetched in at most one more
\* request, and the transactions their inputs spend from are not fetched.
C22_HistoryAndPreviousStored ==
    [][(last'.op = "sync" /\ last'.res = "Ok") =>
          LET downloaded == Referenced(remote) \ txstore
              previous == PreviousOf(downloaded) \ (txstore \cup downloaded)
              tx_requests == last'.calls - OtherRequests(remote, headers)
          IN  /\ Referenced(remote) \subseteq txstore'
              /\ PreviousOf(downloaded) \subseteq txstore'
              /\ txstore' = txstore \cup downloaded \cup previous
              /\ tx_requests = (IF downloaded = {} THEN 0 ELSE 1)
                                   + (IF previous = {} THEN 0 ELSE 1)
              /\ tx_requests <= 2]_vars

\* a pass has stored a listed transaction and the one it spends from, and not
\* the one that one spends from
C22_Witness ==
    /\ Synced
    /\ 2 \in Referenced(remote)
    /\ 1 \notin Referenced(remote)
    /\ {1, 2} \subseteq txstore
    /\ 9 \notin txstore

(***************************************************************************)
(* The stored transactions over passes of sync against an indexer that     *)
(* answers as it likes (under SpecUntrusted).                              *)
(***************************************************************************)
\* C23 as stated: a pass of sync requests no transaction id the store holds,
\* and every transaction the store holds before the pass is held after it
\* with the same bytes, whatever the indexer returns.
C23_StoredBytesImmutable ==
    [][last'.op = "sync_untrusted" =>
          /\ last'.requested \cap txstore = {}
          /\ \A t \in txstore : t \in txstore' /\ last'.stored[t] = StoredBytes[t]]_vars

\* the part of C23 that holds: no stored id is requested, none is deleted
C23_StoredNeverRequestedNorDeleted ==
    [][last'.op = "sync_untrusted" =>
          /\ last'.requested \cap txstore = {}
          /\ txstore \subseteq txstore']_vars

\* a pass has requested transactions while the store held others
C23_Witness ==
    /\ last.op = "sync_untrusted"
    /\ last.requested # {}
    /\ \E t \in txstore : t \notin last.requested

(***************************************************************************)
(* The fee a built transaction records (under SpecBuild).                  *)
(***************************************************************************)
\* C24 as stated: the fee recorded with a returned transaction is the sum of
\* the values of the selected inputs minus the sum of the values of all its
\* outputs, also when the change is at or below 546 and no change output is
\* appended.
C24_RecordedFeeIsInputsMinusOutputs ==
    Built => last.fee = last.selected_amount - sum_outputs(Db, last.output, FALSE)

\* the part of C24 that holds: the equality when a change output is appended
\* or the change is 0
C24_RecordedFeeExactWithChange ==
    (Built /\ (ChangeOutputs # {} \/ last.change_val = 0))
        => last.fee = last.selected_amount - sum_outputs(Db, last.output, FALSE)

(***************************************************************************)
(* The stored heights over passes of sync that may abort (under SpecAbort).*)
(***************************************************************************)
\* C25: whatever passes of sync were made, aborted ones included, every
\* transaction id with a stored height has its transaction in the store and a
\* header stored for that height, and list_tx does not fail with "no tx" or
\* "no header".
C25_StoredHeightHasTxAndHeader ==
    /\ \A t \in DOMAIN heights : t \in txstore /\ heights[t] \in headers
    /\ \A my \in {CHOOSE o \in Orderings(get_my(Db)) : TRUE} :
          list_tx_on(Db, my, FALSE).res # "Err"

\* a pass was aborted by the store after it wrote some but not all heights
C25_Witness ==
    /\ last.op = "sync_store_error"
    /\ last.step = "heights"
    /\ last.written > 0
    /\ DOMAIN heights # {}
    /\ \E t \in DOMAIN remote : remote[t] >= 0 /\ t \notin DOMAIN heights

\* a pass was aborted by a failed request for headers
C25_WitnessRequest ==
    /\ last.op = "sync"
    /\ last.res = "Err"
    /\ last.stage = "headers"
    /\ \E t \in DOMAIN remote : remote[t] >= 0 /\ t \in txstore /\ t \notin DOMAIN heights

====
